---- MODULE Spec2Model ----
(***************************************************************************)
(* Model of the generative-art core of nft-forge (src/src/index.ts):       *)
(* hashString, seededRandom, generateArt with its five renderers, and      *)
(* generateTraits.                                                         *)
(*                                                                         *)
(* Numbers.  A JavaScript number is an IEEE-754 double.  The values the    *)
(* program computes exceed the range of the integers of the model checker, *)
(* so a 32-bit quantity is held as a word <<hi, lo>> of two 16-bit digits  *)
(* (value hi * 2^16 + lo) and a 64-bit product as four such digits, least  *)
(* significant first.  A value returned by the generator is the fraction   *)
(* seed / 0x7fffffff; the model keeps its numerator.                       *)
(* Strings are sequences of UTF-16 code units, except the style names,     *)
(* palette colours and trait values, which are only compared and are kept  *)
(* as strings.                                                             *)
(***************************************************************************)
EXTENDS Integers, Sequences, FiniteSets, TLC

Radix == 2^16
HalfRadix == 2^15

\* ---------------------------------------------------------------- bounds
MaxLen == 2
MaxDraws == 12
MaxCalls == 2
MaxGrid == 2
MaxRequests == 2

\* ------------------------------------------------------------------ loops
\* A loop whose locals are the record st and whose counter At(st) is
\* advanced by one in every iteration Body, run until the counter reaches
\* end.  The iterations are done half by half, the state being inspected
\* before each half.
RECURSIVE Repeat(_, _, _, _)
Repeat(Body(_), At(_), st, end) ==
    IF At(st) >= end THEN st
    ELSE IF At(st) + 1 = end THEN Body(st)
    ELSE Repeat(Body, At, Repeat(Body, At, st, (At(st) + end) \div 2), end)

\* ------------------------------------------------------ double arithmetic
\* Number of significant bits of n < 2^16 (0 for n = 0).
BitLen(n) == CHOOSE k \in 0 .. 16 : n < 2^k /\ (k = 0 \/ n >= 2^(k - 1))

\* d + a for a four-digit number d and 0 <= a < Radix, carries propagated.
AddSmall(d, a) ==
    LET t0 == d[1] + a
        t1 == d[2] + (t0 \div Radix)
        t2 == d[3] + (t1 \div Radix)
        t3 == d[4] + (t2 \div Radix)
    IN  <<t0 % Radix, t1 % Radix, t2 % Radix, t3>>

\* The double nearest to the non-negative integer d (ties to even): a double
\* carries 53 significant bits, so an integer of 53 + k bits loses its k low
\* bits.  Here d < 2^63, hence k <= 10 and only the lowest digit is rounded.
\* DropBits is k for d of 48 + BitLen(d[4]) bits, RoundTo rounds d to a
\* multiple of unit = 2^k.
DropBits(d) == IF d[4] < 32 THEN 0 ELSE BitLen(d[4]) - 5

RoundTo(d, unit) ==
    IF \/ 2 * (d[1] % unit) > unit
       \/ (2 * (d[1] % unit) = unit /\ (d[1] \div unit) % 2 = 1)
    THEN AddSmall(<<d[1] - (d[1] % unit), d[2], d[3], d[4]>>, unit)
    ELSE <<d[1] - (d[1] % unit), d[2], d[3], d[4]>>

RoundDouble(d) == RoundTo(d, 2^DropBits(d))

Multiplier == 1103515245
Increment == 12345
Mask31 == 2147483647

\* seed * 1103515245 as an exact integer, seed a word of at most 2^31.
Product(w) ==
    LET mh == Multiplier \div Radix
        ml == Multiplier % Radix
        c == w[2] * ml
        b == w[1] * ml + w[2] * mh + (c \div Radix)
        a == w[1] * mh + (b \div Radix)
    IN  <<c % Radix, b % Radix, a % Radix, a \div Radix>>

\* x & 0x7fffffff for a double x >= 0 holding an integer: ToInt32 keeps the
\* low 32 bits, the mask the low 31.
And31(d) == <<d[2] % HalfRadix, d[1]>>

\* The register after one call of the closure (line 74): the product and the
\* sum are each rounded to a double before the mask is applied.
\* NextSeedExact is the recurrence without the two roundings.
NextSeedExact(w) == And31(AddSmall(Product(w), Increment))

NextSeed(w) == And31(RoundDouble(AddSmall(RoundDouble(Product(w)), Increment)))

\* Numerator of seed / 0x7fffffff for a register below 2^31.
Numer(w) == w[1] * Radix + w[2]

\* A value in [0,1] as returned by the closure, given by its numerator v over
\* 0x7fffffff = 2^31 - 1: Math.floor(value * n) for 1 <= n <= 32.  The
\* quotient v * n / (2^31 - 1) is an integer only for v = 0 and v = 2^31 - 1
\* (2^31 - 1 is prime) and is otherwise further than 2^-32 from one, far
\* more than the rounding of the division and the product, so the floor of
\* the doubles is the floor of the exact quotient.  With
\* v * n = hi * 2^31 + lo = hi * (2^31 - 1) + (hi + lo) the quotient is hi,
\* plus one when hi + lo reaches 2^31 - 1.
MulFloor(v, n) ==
    LET t == n * (v % Radix)
        u == n * (v \div Radix) + (t \div Radix)
        lo == (u % HalfRadix) * Radix + (t % Radix)
        hi == u \div HalfRadix
    IN  IF lo >= Mask31 - hi THEN hi + 1 ELSE hi

\* value > num / den for the thresholds 0.4 = 2/5 and 0.5 = 1/2 of the
\* renderers: v * den = num * (2^31 - 1) has no solution, so the comparison
\* of the doubles is the comparison of the exact fractions.
Exceeds(v, num, den) == MulFloor(v, den) >= num

\* value * size, kept as the numerator of the value; the product is 0 for
\* every value when size is 0.
Scaled(v, size) == IF size = 0 THEN 0 ELSE v

\* ------------------------------------------------------------- hashString
\* hash << 5 on the 32-bit pattern of hash (Shl4 is hash << 4).
Shl4(h) == <<(h[1] * 16 + (h[2] \div 4096)) % Radix, (h[2] * 16) % Radix>>
Shl5(h) == <<(h[1] * 32 + (h[2] \div 2048)) % Radix, (h[2] * 32) % Radix>>

\* Lines 83-84: ((hash << 5) - hash) + code is exact in a double (below
\* 2^33 in magnitude); hash & hash converts it to int32, i.e. keeps its low
\* 32 bits.  Digit-wise subtraction with borrow gives those bits.
HashStep(h, code) ==
    LET s == Shl5(h)
        lo == s[2] - h[2] + code
        hi == s[1] - h[1] + (lo \div Radix)
    IN  <<hi % Radix, lo % Radix>>

\* The loop of lines 82-85 on its variables i and hash (i counted from 1).
HashLoop(str) ==
    Repeat(LAMBDA st : [i |-> st.i + 1, hash |-> HashStep(st.hash, str[st.i])],
           LAMBDA st : st.i, [i |-> 1, hash |-> <<0, 0>>], Len(str) + 1).hash

\* Math.abs of the int32 whose pattern is h: a pattern with the top bit set
\* is the negative number h - 2^32, of magnitude 2^32 - h (2^31 for the
\* pattern 0x80000000).
MathAbs(h) ==
    IF h[1] < HalfRadix THEN h
    ELSE <<Radix - h[1] - (IF h[2] = 0 THEN 0 ELSE 1), (Radix - h[2]) % Radix>>

hashString(str) == MathAbs(HashLoop(str))

\* --------------------------------------------------------------- catalogs
STYLES ==
    [geometric |-> [name |-> "Geometric"],
     organic   |-> [name |-> "Organic"],
     pixel     |-> [name |-> "Pixel"],
     circuit   |-> [name |-> "Circuit"],
     stacks    |-> [name |-> "Stacks"],
     faces     |-> [name |-> "Bitcoin Faces"]]

PALETTES ==
    << <<"#FF6B6B", "#4ECDC4", "#45B7D1", "#96CEB4", "#FFEAA7">>,
       <<"#2C3E50", "#E74C3C", "#ECF0F1", "#3498DB", "#F39C12">>,
       <<"#5c73f2", "#00d9ff", "#ff6b35", "#f7931a", "#9b59b6">>,
       <<"#1a1a2e", "#16213e", "#0f3460", "#e94560", "#533483">>,
       <<"#00b894", "#00cec9", "#0984e3", "#6c5ce7", "#fd79a8">> >>

stacksPalette == <<"#5c73f2", "#00d9ff", "#f7931a", "#ffffff", "#1a1a2e">>

\* The value undefined where a palette is expected.
Undefined == <<>>

\* array[index] of a JavaScript array: undefined outside 0 .. length - 1.
ElementAt(array, index) ==
    IF index + 1 \in DOMAIN array THEN array[index + 1] ELSE "undefined"

\* ----------------------------------------------------------- seededRandom
\* The closure returned by seededRandom is its captured variable seed; n
\* counts the calls made of it (instrumentation, not program state).
\* Call is the closure after one call, Value the number that call returned
\* (the numerator of seed / 0x7fffffff).
Call(rand) == [seed |-> NextSeed(rand.seed), n |-> rand.n + 1]
Value(rand) == Numer(rand.seed)

\* Math.floor(rand() * array.length) for the value the call returned.
\* IndexRounded is Math.round in its place.
IndexRounded(rand, array) == (MulFloor(Value(rand), 2 * Len(array)) + 1) \div 2

Index(rand, array) == MulFloor(Value(rand), Len(array))

\* -------------------------------------------------------------- renderers
\* A renderer yields the concatenated elements (svg), the closure as it
\* leaves it (rand) and, as instrumentation, one trace entry per loop
\* iteration.  An element keeps its tag, its fill or stroke colour and, in
\* args, the numerators of the values that determine its numeric
\* attributes, in the order the code draws them.  A loop is a Repeat on the
\* record of the function's local variables.  The body of an iteration is
\* given the closure as it is after each of the calls the iteration can
\* make: d[k] is the closure after the k-th call, Value(d[k]) what that
\* call returned.
RECURSIVE DrawsFrom(_, _)
DrawsFrom(d, k) ==
    IF Len(d) >= k THEN d ELSE DrawsFrom(Append(d, Call(d[Len(d)])), k)

Draws(rand, k) == DrawsFrom(<<Call(rand)>>, k)

\* One iteration of the loop of generateGeometric (lines 135-155): five
\* calls, then one for a triangle, four for a rectangle, two for a circle.
\* GeometricShapeBothBranches makes the second rand() > 0.5 call before the
\* first is tested.
GeometricShapeBothBranches(d, st, palette, size) ==
    LET color == ElementAt(palette, Index(d[1], palette))
        args == <<Value(d[2]), Scaled(Value(d[3]), size),
                  Scaled(Value(d[4]), size)>>
        shape == IF Exceeds(Value(d[5]), 1, 2)
                 THEN [tag |-> "polygon", args |-> <<Value(d[7])>>,
                       calls |-> 7]
                 ELSE IF Exceeds(Value(d[6]), 1, 2)
                 THEN [tag |-> "rect",
                       args |-> <<Value(d[7]), Value(d[8]), Value(d[9])>>,
                       calls |-> 9]
                 ELSE [tag |-> "circle", args |-> <<Value(d[7])>>,
                       calls |-> 7]
    IN  [i |-> st.i + 1,
         svg |-> Append(st.svg, [tag |-> shape.tag, fill |-> color,
                                 args |-> args \o shape.args]),
         rand |-> d[shape.calls],
         trace |-> Append(st.trace,
                       [tag |-> shape.tag,
                        draws |-> d[shape.calls].n - st.rand.n])]

GeometricShape(d, st, palette, size) ==
    LET color == ElementAt(palette, Index(d[1], palette))
        args == <<Value(d[2]), Scaled(Value(d[3]), size),
                  Scaled(Value(d[4]), size)>>
        shape == IF Exceeds(Value(d[5]), 1, 2)
                 THEN [tag |-> "polygon", args |-> <<Value(d[6])>>,
                       calls |-> 6]
                 ELSE IF Exceeds(Value(d[6]), 1, 2)
                 THEN [tag |-> "rect",
                       args |-> <<Value(d[7]), Value(d[8]), Value(d[9])>>,
                       calls |-> 9]
                 ELSE [tag |-> "circle", args |-> <<Value(d[7])>>,
                       calls |-> 7]
    IN  [i |-> st.i + 1,
         svg |-> Append(st.svg, [tag |-> shape.tag, fill |-> color,
                                 args |-> args \o shape.args]),
         rand |-> d[shape.calls],
         trace |-> Append(st.trace,
                       [tag |-> shape.tag,
                        draws |-> d[shape.calls].n - st.rand.n])]

GeometricStep(st, palette, size) ==
    GeometricShape(Draws(st.rand, 9), st, palette, size)

\* Lines 132-134: the number of shapes, then the loop.
GeometricLoop(r0, palette, size) ==
    Repeat(LAMBDA st : GeometricStep(st, palette, size), LAMBDA st : st.i,
           [i |-> 0, svg |-> <<>>, rand |-> r0, trace |-> <<>>],
           8 + MulFloor(Value(r0), 12))

generateGeometric(rand, palette, size) ==
    GeometricLoop(Call(rand), palette, size)

\* One boundary point of a blob (lines 175-179): one value.
BlobPoint(r, st) ==
    [j |-> st.j + 1, points |-> Append(st.points, Value(r)), rand |-> r]

BlobStep(st) == BlobPoint(Call(st.rand), st)

\* The path of a blob (line 192) from its boundary points.
BlobPath(st, color, pts) ==
    [i |-> st.i + 1,
     svg |-> Append(st.svg, [tag |-> "path", fill |-> color,
                             args |-> pts.points]),
     rand |-> pts.rand, trace |-> <<>>]

\* One blob (lines 165-192): five calls, then the six points.
OrganicBlob(d, st, palette, size) ==
    BlobPath(st, ElementAt(palette, Index(d[1], palette)),
             Repeat(BlobStep, LAMBDA b : b.j,
                    [j |-> 0,
                     points |-> <<Value(d[2]), Scaled(Value(d[3]), size),
                                  Scaled(Value(d[4]), size), Value(d[5])>>,
                     rand |-> d[5]],
                    6))

OrganicStep(st, palette, size) ==
    OrganicBlob(Draws(st.rand, 5), st, palette, size)

\* Lines 162-164.
OrganicLoop(r0, palette, size) ==
    Repeat(LAMBDA st : OrganicStep(st, palette, size), LAMBDA st : st.i,
           [i |-> 0, svg |-> <<>>, rand |-> r0, trace |-> <<>>],
           5 + MulFloor(Value(r0), 8))

generateOrganic(rand, palette, size) == OrganicLoop(Call(rand), palette, size)

pixelSize == 20

\* The number of iterations of for (x = 0; x < grid; x++) with
\* grid = size / pixelSize: the least integer that is not below grid.
\* GridUpToInclusive is that number for x <= grid.
GridUpToInclusive(size) == IF size < 0 THEN 0 ELSE size \div pixelSize + 1

GridUpTo(size) ==
    IF size <= 0 THEN 0 ELSE (size + pixelSize - 1) \div pixelSize

\* One cell (lines 204-208): one call, and two more if its value exceeds
\* 0.4.
PixelCell(d, st, palette) ==
    LET painted == Exceeds(Value(d[1]), 2, 5)
        after == IF painted THEN d[3] ELSE d[1]
    IN  [x |-> st.x, y |-> st.y + 1,
         svg |-> IF painted
                 THEN Append(st.svg,
                          [tag |-> "rect",
                           fill |-> ElementAt(palette, Index(d[2], palette)),
                           args |-> <<st.x * pixelSize, st.y * pixelSize,
                                      pixelSize, pixelSize, Value(d[3])>>])
                 ELSE st.svg,
         rand |-> after,
         trace |-> Append(st.trace,
                       [x |-> st.x, y |-> st.y, value |-> Value(d[1]),
                        draws |-> after.n - st.rand.n])]

PixelStep(st, palette) == PixelCell(Draws(st.rand, 3), st, palette)

\* The inner loop (line 203) for the current x.
PixelRow(st, palette, size) ==
    Repeat(LAMBDA c : PixelStep(c, palette), LAMBDA c : c.y,
           [st EXCEPT !.y = 0], GridUpTo(size))

\* x++ after the inner loop.
PixelAdvance(col) == [col EXCEPT !.x = col.x + 1]

PixelColumn(st, palette, size) == PixelAdvance(PixelRow(st, palette, size))

generatePixel(rand, palette, size) ==
    Repeat(LAMBDA st : PixelColumn(st, palette, size), LAMBDA st : st.x,
           [x |-> 0, y |-> 0, svg |-> <<>>, rand |-> rand, trace |-> <<>>],
           GridUpTo(size))

\* One segment of a trace (lines 226-234): a direction and a length.
CircuitSegment(d, st) ==
    [j |-> st.j + 1,
     path |-> st.path \o <<MulFloor(Value(d[1]), 4), Value(d[2])>>,
     rand |-> d[2]]

SegmentStep(st) == CircuitSegment(Draws(st.rand, 2), st)

\* The path of a trace and the circle at its end (lines 237-238).
CircuitPath(st, color, segs) ==
    [i |-> st.i + 1,
     svg |-> st.svg \o <<[tag |-> "path", fill |-> color,
                          args |-> segs.path],
                         [tag |-> "circle", fill |-> color,
                          args |-> segs.path]>>,
     rand |-> segs.rand, trace |-> <<>>]

\* One trace (lines 219-238): four calls, then the segments.
CircuitLine(d, st, palette, size) ==
    CircuitPath(st, ElementAt(palette, Index(d[1], palette)),
                Repeat(SegmentStep, LAMBDA g : g.j,
                       [j |-> 0,
                        path |-> <<Scaled(Value(d[2]), size),
                                   Scaled(Value(d[3]), size)>>,
                        rand |-> d[4]],
                       3 + MulFloor(Value(d[4]), 5)))

LineStep(st, palette, size) ==
    CircuitLine(Draws(st.rand, 4), st, palette, size)

\* One node (lines 243-246).
CircuitNode(d, st, palette, size) ==
    [i |-> st.i + 1,
     svg |-> Append(st.svg,
                 [tag |-> "circle",
                  fill |-> ElementAt(palette, Index(d[1], palette)),
                  args |-> <<Scaled(Value(d[2]), size),
                             Scaled(Value(d[3]), size), Value(d[4])>>]),
     rand |-> d[4], trace |-> <<>>]

NodeStep(st, palette, size) ==
    CircuitNode(Draws(st.rand, 4), st, palette, size)

\* Lines 216-239: the number of traces, then the traces.
CircuitLines(r0, palette, size) ==
    Repeat(LAMBDA st : LineStep(st, palette, size), LAMBDA st : st.i,
           [i |-> 0, svg |-> <<>>, rand |-> r0, trace |-> <<>>],
           15 + MulFloor(Value(r0), 20))

\* Lines 242-247: the ten nodes after the traces.
CircuitNodes(traces, palette, size) ==
    Repeat(LAMBDA st : NodeStep(st, palette, size), LAMBDA st : st.i,
           [traces EXCEPT !.i = 0], 10)

generateCircuit(rand, palette, size) ==
    CircuitNodes(CircuitLines(Call(rand), palette, size), palette, size)

\* One layer (lines 263-268); the opacity 0.7 - i * 0.1 is given by i.
StacksLayer(d, st, size) ==
    [i |-> st.i + 1,
     svg |-> Append(st.svg,
                 [tag |-> "rect",
                  fill |-> ElementAt(stacksPalette,
                                     st.i % Len(stacksPalette)),
                  args |-> <<st.i, Value(d[1]), Value(d[2]), Value(d[3])>>]),
     rand |-> d[3], trace |-> <<>>]

LayerStep(st, size) == StacksLayer(Draws(st.rand, 3), st, size)

\* One particle (lines 276-280).
StacksParticle(d, st, size) ==
    [i |-> st.i + 1,
     svg |-> Append(st.svg,
                 [tag |-> "circle",
                  fill |-> ElementAt(stacksPalette,
                                     Index(d[1], stacksPalette)),
                  args |-> <<Scaled(Value(d[2]), size),
                             Scaled(Value(d[3]), size),
                             Value(d[4]), Value(d[5])>>]),
     rand |-> d[5], trace |-> <<>>]

ParticleStep(st, size) == StacksParticle(Draws(st.rand, 5), st, size)

\* Lines 257-269: btcSize, then the five layers.
StacksLayers(r0, size) ==
    Repeat(LAMBDA st : LayerStep(st, size), LAMBDA st : st.i,
           [i |-> 0, svg |-> <<>>, rand |-> r0, trace |-> <<>>], 5)

\* Lines 272-281: the text, whose font size is btcSize, then the twenty
\* particles.
StacksParticles(r0, layers, size) ==
    Repeat(LAMBDA st : ParticleStep(st, size), LAMBDA st : st.i,
           [layers EXCEPT
               !.i = 0,
               !.svg = Append(@, [tag |-> "text", fill |-> "#f7931a",
                                  args |-> <<Value(r0)>>])],
           20)

StacksFrom(r0, size) == StacksParticles(r0, StacksLayers(r0, size), size)

\* The palette parameter is not used (line 252).
generateStacks(rand, palette, size) == StacksFrom(Call(rand), size)

\* The switch of generateArt (lines 98-116).  RenderNoDefault is the switch
\* without its default case: elements stays the empty string.
RenderNoDefault(style, rand, palette, size) ==
    CASE style = "geometric" -> generateGeometric(rand, palette, size)
      [] style = "organic" -> generateOrganic(rand, palette, size)
      [] style = "pixel" -> generatePixel(rand, palette, size)
      [] style = "circuit" -> generateCircuit(rand, palette, size)
      [] style = "stacks" -> generateStacks(rand, palette, size)
      [] OTHER -> [svg |-> <<>>, rand |-> rand, trace |-> <<>>]

Render(style, rand, palette, size) ==
    CASE style = "geometric" -> generateGeometric(rand, palette, size)
      [] style = "organic" -> generateOrganic(rand, palette, size)
      [] style = "pixel" -> generatePixel(rand, palette, size)
      [] style = "circuit" -> generateCircuit(rand, palette, size)
      [] style = "stacks" -> generateStacks(rand, palette, size)
      [] OTHER -> generateGeometric(rand, palette, size)

\* The document returned by generateArt (lines 118-127).  ComposeShifted
\* takes the gradient from palette[1] and palette[2]; ComposeDefaulted
\* writes size || 400 for size.
ComposeShifted(size, palette, elements) ==
    [viewBox |-> <<0, 0, size, size>>,
     stops |-> <<[offset |-> 0, color |-> ElementAt(palette, 1),
                  opacity |-> "0.8"],
                 [offset |-> 100, color |-> ElementAt(palette, 2),
                  opacity |-> "0.8"]>>,
     background |-> [width |-> size, height |-> size, fill |-> "url(#bg)"],
     elements |-> elements]

ComposeDefaulted(size, palette, elements) ==
    LET side == IF size = 0 THEN 400 ELSE size
    IN  [viewBox |-> <<0, 0, side, side>>,
         stops |-> <<[offset |-> 0, color |-> ElementAt(palette, 0),
                      opacity |-> "0.8"],
                     [offset |-> 100, color |-> ElementAt(palette, 1),
                      opacity |-> "0.8"]>>,
         background |-> [width |-> side, height |-> side,
                         fill |-> "url(#bg)"],
         elements |-> elements]

Compose(size, palette, elements) ==
    [viewBox |-> <<0, 0, size, size>>,
     stops |-> <<[offset |-> 0, color |-> ElementAt(palette, 0),
                  opacity |-> "0.8"],
                 [offset |-> 100, color |-> ElementAt(palette, 1),
                  opacity |-> "0.8"]>>,
     background |-> [width |-> size, height |-> size, fill |-> "url(#bg)"],
     elements |-> elements]

\* PALETTES[Math.floor(rand() * PALETTES.length)] (line 93).
SelectPalette(rand) ==
    IF Index(rand, PALETTES) + 1 \in DOMAIN PALETTES
    THEN PALETTES[Index(rand, PALETTES) + 1] ELSE Undefined

\* generateArt run from entry to return without interruption, for a call
\* that does not throw.
generateArt(seed, style, size) ==
    LET r1 == Call([seed |-> hashString(seed), n |-> 0])
        palette == SelectPalette(r1)
        r2 == Call(r1)
    IN  Compose(size, palette, Render(style, r2, palette, size).svg)

\* --------------------------------------------------------- generateTraits
rarities == <<"Common", "Uncommon", "Rare", "Epic", "Legendary">>
backgrounds == <<"Sunset", "Midnight", "Ocean", "Forest", "Cosmic">>
moods == <<"Calm", "Energetic", "Mysterious", "Playful", "Bold">>

\* The properties every object inherits from Object.prototype that are
\* functions; the name of each function is the property's name, except for
\* constructor, which is the function Object.
ObjectPrototypeFunctions ==
    {"constructor", "toString", "toLocaleString", "valueOf",
     "hasOwnProperty", "isPrototypeOf", "propertyIsEnumerable"}

\* STYLES[style]?.name (line 296), "" standing for undefined: a property
\* lookup on the object literal finds its own six properties and those of
\* Object.prototype; __proto__ is Object.prototype itself, which has no name.
StyleName(style) ==
    IF style \in DOMAIN STYLES THEN STYLES[style].name
    ELSE IF style = "constructor" THEN "Object"
    ELSE IF style \in ObjectPrototypeFunctions THEN style
    ELSE ""

\* STYLES[style]?.name || style.
StyleValue(style) == IF StyleName(style) = "" THEN style ELSE StyleName(style)

\* ------------------------------------------------------------------ state
\* calls[c] is activation c of generateArt or generateTraits (or a caller
\* that only draws from a sequence); heap[k] is the variable seed captured
\* by the closure that seededRandom returned to the activation owning k.
VARIABLES heap, calls

\* CACHE is the key-value store of the service (c.env.CACHE): the values
\* under the keys collection:<id> and the value under forge:stats, a value
\* being <<>> where the store has none and <<v>> for the stored document v.
\* forge[r] is the activation of the POST /forge handler for request r.
VARIABLES CACHE, forge

vars == <<heap, calls, CACHE, forge>>

Activations == 1 .. MaxCalls

\* The register a closure created in activation c reads and writes: the
\* parameter seed of that activation of seededRandom (lines 72-73).
\* ClosureShared is one register for every closure (a module-level seed).
ClosureShared(c) == 1

Closure(c) == c

NoClosure == [seed |-> <<0, 0>>, n |-> 0]

\* seededRandom(seed), called from activation c.
seededRandom(c, seed) == [heap EXCEPT ![Closure(c)] = [seed |-> seed, n |-> 0]]

Idle ==
    [op |-> "none", seed |-> <<>>, style |-> "", size |-> 0, pc |-> "idle",
     palette |-> Undefined, bgColor |-> "", elements |-> <<>>,
     trace |-> <<>>, result |-> <<>>]

\* ----------------------------------------------------------------- inputs
Alphabet == {97, 98}

RECURSIVE StringsOfLength(_)
StringsOfLength(n) ==
    IF n = 0 THEN {<<>>}
    ELSE {Append(str, ch) : str \in StringsOfLength(n - 1), ch \in Alphabet}

\* "abc", "abd" and "seed-1" of the specification's scenarios, and three
\* seeds whose rolling hash is 230538014, -2^31 and -5.
SeedAbc == <<97, 98, 99>>
SeedAbd == <<97, 98, 100>>
SeedOne == <<115, 101, 101, 100, 45, 49>>
SeedTop == <<50, 107, 38, 51, 63, 43, 48>>
SeedMin == <<105, 119, 44, 45, 33, 45, 59>>
SeedNeg == <<50, 99, 36, 63, 47, 47, 39>>

Seeds ==
    UNION {StringsOfLength(n) : n \in 0 .. MaxLen}
    \cup {SeedAbc, SeedAbd, SeedOne, SeedTop, SeedMin, SeedNeg}

Styles ==
    DOMAIN STYLES \cup {"punk", "constructor", "toString", "__proto__"}

DefaultSize == 400

Sizes == {-20, 0, DefaultSize} \cup {pixelSize * k : k \in 1 .. MaxGrid}

\* ------------------------------------------------------------ POST /forge
Requests == 1 .. MaxRequests

\* crypto.randomUUID().slice(0, 8) (line 597): the identifiers of distinct
\* requests are taken to be distinct, request r getting r.
collectionId(r) == r

\* STYLES[style] is truthy (lines 515, 549): an own property of the object
\* literal or a property inherited from Object.prototype.
StyleTruthy(style) ==
    style \in DOMAIN STYLES \cup ObjectPrototypeFunctions \cup {"__proto__"}

\* A recipients value is kept by what the handler reads of it: whether it
\* is an array, its length and the first two characters of its entries.
Recipients(length, prefixes) ==
    [array |-> TRUE, length |-> length, prefixes |-> prefixes]

NoRecipients == [array |-> FALSE, length |-> 0, prefixes |-> {}]

MaxRecipients == 10000

\* Request bodies: two that pass validation and one for each way to fail
\* it; json is FALSE for a body that is not JSON, "" is an absent field.
ValidBody(recipients) ==
    [json |-> TRUE, name |-> "Art", style |-> "pixel",
     recipients |-> recipients]

Bodies ==
    {ValidBody(Recipients(1, {"SP"})),
     ValidBody(Recipients(2, {"SP", "ST"})),
     ValidBody(NoRecipients),
     ValidBody(Recipients(0, {})),
     ValidBody(Recipients(MaxRecipients + 1, {"SP"})),
     ValidBody(Recipients(2, {"SP", "0x"})),
     [ValidBody(Recipients(1, {"ST"})) EXCEPT !.json = FALSE],
     [ValidBody(Recipients(1, {"ST"})) EXCEPT !.name = ""],
     [ValidBody(Recipients(1, {"ST"})) EXCEPT !.style = ""],
     [ValidBody(Recipients(1, {"ST"})) EXCEPT !.style = "punk"]}

\* The X-Payment header, "" when the request has none.
Payments == {"", "tx"}

\* Lines 537-594: the status the handler answers with before it writes
\* anything, 0 when the request passes.
Rejection(body, paymentTx) ==
    IF ~body.json THEN 400
    ELSE IF body.name = "" THEN 400
    ELSE IF body.style = "" \/ ~StyleTruthy(body.style) THEN 400
    ELSE IF ~body.recipients.array \/ body.recipients.length < 1 THEN 400
    ELSE IF body.recipients.length > MaxRecipients THEN 400
    ELSE IF body.recipients.prefixes \ {"SP", "ST"} # {} THEN 400
    ELSE IF paymentTx = "" THEN 402
    ELSE 0

\* stats.collections++; stats.nftsMinted += recipients.length (lines
\* 617-619) on the value read from forge:stats.
StatsUpdated(statsData, length) ==
    LET stats == IF statsData = <<>>
                 THEN [collections |-> 0, nftsMinted |-> 0]
                 ELSE statsData[1]
    IN  [collections |-> stats.collections + 1,
         nftsMinted |-> stats.nftsMinted + length]

NoForge ==
    [pc |-> "idle", body |-> ValidBody(NoRecipients), paymentTx |-> "",
     statsData |-> <<>>, puts |-> 0, status |-> 0]

\* ---------------------------------------------------------------- actions
Init ==
    /\ heap = [k \in Activations |-> NoClosure]
    /\ calls = [c \in Activations |-> Idle]
    /\ CACHE = [collections |-> [id \in Requests |-> <<>>], stats |-> <<>>]
    /\ forge = [r \in Requests |-> NoForge]

\* generateArt is entered: lines 91-92.
InvokeArt(c, seed, style, size) ==
    /\ calls[c].pc = "idle"
    /\ UNCHANGED <<CACHE, forge>>
    /\ heap' = seededRandom(c, hashString(seed))
    /\ calls' = [calls EXCEPT ![c] =
                    [Idle EXCEPT !.op = "art", !.seed = seed,
                                 !.style = style, !.size = size,
                                 !.pc = "palette"]]

\* Line 93.
ArtPalette(c) ==
    /\ calls[c].pc = "palette"
    /\ UNCHANGED <<CACHE, forge>>
    /\ LET rand == Call(heap[Closure(c)])
       IN  /\ heap' = [heap EXCEPT ![Closure(c)] = rand]
           /\ calls' = [calls EXCEPT ![c].palette = SelectPalette(rand),
                                     ![c].pc = "bgColor"]

\* Line 94: palette.length is a TypeError when palette is undefined.
ArtBgColor(c) ==
    /\ calls[c].pc = "bgColor"
    /\ UNCHANGED <<CACHE, forge>>
    /\ IF calls[c].palette = Undefined
       THEN /\ calls' = [calls EXCEPT ![c].pc = "threw"]
            /\ UNCHANGED heap
       ELSE LET rand == Call(heap[Closure(c)])
            IN  /\ heap' = [heap EXCEPT ![Closure(c)] = rand]
                /\ calls' = [calls EXCEPT
                       ![c].bgColor = ElementAt(calls[c].palette,
                                          Index(rand, calls[c].palette)),
                       ![c].pc = "render"]

\* Lines 96-116.
ArtRender(c) ==
    /\ calls[c].pc = "render"
    /\ UNCHANGED <<CACHE, forge>>
    /\ LET out == Render(calls[c].style, heap[Closure(c)], calls[c].palette,
                         calls[c].size)
       IN  /\ heap' = [heap EXCEPT ![Closure(c)] = out.rand]
           /\ calls' = [calls EXCEPT ![c].elements = out.svg,
                                     ![c].trace = out.trace,
                                     ![c].pc = "compose"]

\* Lines 118-127.
ArtReturn(c) ==
    /\ calls[c].pc = "compose"
    /\ UNCHANGED <<CACHE, forge>>
    /\ calls' = [calls EXCEPT
           ![c].result = Compose(calls[c].size, calls[c].palette,
                                 calls[c].elements),
           ![c].pc = "done"]
    /\ UNCHANGED heap

\* generateTraits is entered: lines 288-293.
InvokeTraits(c, seed, style) ==
    /\ calls[c].pc = "idle"
    /\ UNCHANGED <<CACHE, forge>>
    /\ heap' = seededRandom(c, hashString(seed))
    /\ calls' = [calls EXCEPT ![c] =
                    [Idle EXCEPT !.op = "traits", !.seed = seed,
                                 !.style = style, !.pc = "style"]]

\* Line 296.
TraitsStyle(c) ==
    /\ calls[c].pc = "style"
    /\ UNCHANGED <<CACHE, forge>>
    /\ calls' = [calls EXCEPT
           ![c].result = <<[trait_type |-> "Style",
                            value |-> StyleValue(calls[c].style)]>>,
           ![c].pc = "rarity"]
    /\ UNCHANGED heap

\* One of the lines 297-299: an entry chosen from list by one value.
TraitsDraw(c, at, type, list, then) ==
    /\ calls[c].pc = at
    /\ UNCHANGED <<CACHE, forge>>
    /\ LET rand == Call(heap[Closure(c)])
       IN  /\ heap' = [heap EXCEPT ![Closure(c)] = rand]
           /\ calls' = [calls EXCEPT
                  ![c].result = Append(@, [trait_type |-> type,
                                   value |-> ElementAt(list,
                                                 Index(rand, list))]),
                  ![c].pc = then]

TraitsRarity(c) == TraitsDraw(c, "rarity", "Rarity", rarities, "background")
\* TraitsBackgroundOfMoods indexes moods where line 298 indexes backgrounds.
TraitsBackgroundOfMoods(c) ==
    TraitsDraw(c, "background", "Background", moods, "mood")

TraitsBackground(c) ==
    TraitsDraw(c, "background", "Background", backgrounds, "mood")
TraitsMood(c) == TraitsDraw(c, "mood", "Mood", moods, "generation")

\* Lines 300-301.
TraitsReturn(c) ==
    /\ calls[c].pc = "generation"
    /\ UNCHANGED <<CACHE, forge>>
    /\ calls' = [calls EXCEPT
           ![c].result = Append(@, [trait_type |-> "Generation",
                                    value |-> "Genesis"]),
           ![c].pc = "done"]
    /\ UNCHANGED heap

\* A caller creates a sequence from a seed's digest and draws from it.
NewSequence(c, seed) ==
    /\ calls[c].pc = "idle"
    /\ UNCHANGED <<CACHE, forge>>
    /\ heap' = seededRandom(c, hashString(seed))
    /\ calls' = [calls EXCEPT ![c] =
                    [Idle EXCEPT !.op = "sequence", !.seed = seed,
                                 !.pc = "drawing"]]

NextValue(c) ==
    /\ calls[c].pc = "drawing"
    /\ UNCHANGED <<CACHE, forge>>
    /\ heap[Closure(c)].n < MaxDraws
    /\ LET rand == Call(heap[Closure(c)])
       IN  /\ heap' = [heap EXCEPT ![Closure(c)] = rand]
           /\ calls' = [calls EXCEPT ![c].result = <<Value(rand)>>]

\* The caller has the result (or the exception); the activation and its
\* closure are gone.
Discard(c) ==
    /\ calls[c].pc \in {"done", "threw", "drawing"}
    /\ UNCHANGED <<CACHE, forge>>
    /\ calls' = [calls EXCEPT ![c] = Idle]
    /\ heap' = [heap EXCEPT ![Closure(c)] = NoClosure]

\* One activation at a time, over all the inputs.
Next ==
    \E c \in {1} :
        \/ \E seed \in Seeds, style \in Styles, size \in Sizes :
               InvokeArt(c, seed, style, size)
        \/ ArtPalette(c)
        \/ ArtBgColor(c)
        \/ ArtRender(c)
        \/ ArtReturn(c)
        \/ \E seed \in Seeds, style \in Styles : InvokeTraits(c, seed, style)
        \/ TraitsStyle(c)
        \/ TraitsRarity(c)
        \/ TraitsBackground(c)
        \/ TraitsMood(c)
        \/ TraitsReturn(c)
        \/ \E seed \in Seeds : NewSequence(c, seed)
        \/ NextValue(c)
        \/ Discard(c)

Spec == Init /\ [][Next]_vars

\* Activations interleaved at every step, over a few inputs.
ConcSeeds == {SeedAbc, SeedAbd}
ConcStyles == {"geometric"}
ConcSizes == {pixelSize}

NextConc ==
    \E c \in Activations :
        \/ \E seed \in ConcSeeds, style \in ConcStyles, size \in ConcSizes :
               InvokeArt(c, seed, style, size)
        \/ ArtPalette(c)
        \/ ArtBgColor(c)
        \/ ArtRender(c)
        \/ ArtReturn(c)
        \/ \E seed \in ConcSeeds, style \in ConcStyles :
               InvokeTraits(c, seed, style)
        \/ TraitsStyle(c)
        \/ TraitsRarity(c)
        \/ TraitsBackground(c)
        \/ TraitsMood(c)
        \/ TraitsReturn(c)
        \/ Discard(c)

SpecConc == Init /\ [][NextConc]_vars

\* POST /forge arrives and is validated (lines 534-594): answered with 400
\* or 402, or on its way to the store.
ForgeRequest(r, body, paymentTx) ==
    /\ forge[r].pc = "idle"
    /\ forge' = [forge EXCEPT ![r] =
           [NoForge EXCEPT
               !.body = body, !.paymentTx = paymentTx,
               !.status = Rejection(body, paymentTx),
               !.pc = IF Rejection(body, paymentTx) = 0
                      THEN "putCollection" ELSE "responded"]]
    /\ UNCHANGED <<heap, calls, CACHE>>

\* Lines 597-613.
ForgePutCollection(r) ==
    /\ forge[r].pc = "putCollection"
    /\ CACHE' = [CACHE EXCEPT !.collections[collectionId(r)] =
           <<[id |-> collectionId(r), name |-> forge[r].body.name,
              style |-> forge[r].body.style,
              supply |-> forge[r].body.recipients.length,
              minted |-> forge[r].body.recipients.length]>>]
    /\ forge' = [forge EXCEPT ![r].pc = "getStats", ![r].puts = @ + 1]
    /\ UNCHANGED <<heap, calls>>

\* Line 616.
ForgeGetStats(r) ==
    /\ forge[r].pc = "getStats"
    /\ forge' = [forge EXCEPT ![r].statsData = CACHE.stats,
                              ![r].pc = "putStats"]
    /\ UNCHANGED <<heap, calls, CACHE>>

\* Lines 617-620.
ForgePutStats(r) ==
    /\ forge[r].pc = "putStats"
    /\ CACHE' = [CACHE EXCEPT !.stats =
           <<StatsUpdated(forge[r].statsData,
                          forge[r].body.recipients.length)>>]
    /\ forge' = [forge EXCEPT ![r].pc = "airdrop", ![r].puts = @ + 1]
    /\ UNCHANGED <<heap, calls>>

\* Lines 622-657: the call of the airdrop service, which does not touch the
\* store, and the answer.
ForgeRespond(r) ==
    /\ forge[r].pc = "airdrop"
    /\ forge' = [forge EXCEPT ![r].pc = "responded", ![r].status = 200]
    /\ UNCHANGED <<heap, calls, CACHE>>

\* Requests to POST /forge, interleaved at every await of the handler.
NextForge ==
    \E r \in Requests :
        \/ \E body \in Bodies, paymentTx \in Payments :
               ForgeRequest(r, body, paymentTx)
        \/ ForgePutCollection(r)
        \/ ForgeGetStats(r)
        \/ ForgePutStats(r)
        \/ ForgeRespond(r)

SpecForge == Init /\ [][NextForge]_vars

\* ------------------------------------------------------------- properties
Range(seq) == {seq[i] : i \in DOMAIN seq}

IsArt(c) == calls[c].op = "art"
IsTraits(c) == calls[c].op = "traits"
Done(c) == calls[c].pc = "done"

SameInputs(c1, c2) ==
    /\ calls[c1].op = calls[c2].op
    /\ calls[c1].seed = calls[c2].seed
    /\ calls[c1].style = calls[c2].style
    /\ calls[c1].size = calls[c2].size

\* C1 (under SpecConc): any two calls of generateArt, or of generateTraits,
\* with the same seed, style and size return the same value, however their
\* steps were interleaved with each other's and with other calls'.
C1_Determinism ==
    \A c1, c2 \in Activations :
        (Done(c1) /\ Done(c2) /\ SameInputs(c1, c2))
            => calls[c1].result = calls[c2].result

\* Two activations of generateArt with the same inputs have both returned.
C1_Witness ==
    \E c1, c2 \in Activations :
        /\ c1 # c2
        /\ IsArt(c1) /\ Done(c1) /\ Done(c2) /\ SameInputs(c1, c2)
        /\ calls[c1].result.elements # <<>>

\* C2: every value a closure of seededRandom has returned is at least 0 and
\* less than 1, i.e. its numerator over 2^31 - 1 is in 0 .. 2^31 - 2.
C2_SequenceRange ==
    \A c \in Activations :
        /\ heap[c].n > 0 => Value(heap[c]) \in 0 .. Mask31 - 1
        /\ (calls[c].op = "sequence" /\ calls[c].result # <<>>)
               => calls[c].result[1] \in 0 .. Mask31 - 1

\* The first value of the sequence of digest 230538014, whose successor in
\* exact arithmetic is 2^31 - 1.
C2_Witness ==
    /\ calls[1].op = "sequence"
    /\ calls[1].seed = SeedTop
    /\ heap[Closure(1)].n = 1
    /\ calls[1].result = <<0>>

\* The palette whose colours the elements of activation c are drawn from.
PaletteInUse(c) ==
    IF calls[c].style = "stacks" THEN stacksPalette ELSE calls[c].palette

\* C3: a call of generateArt with size > 0 never throws; the palette it
\* selects is one of PALETTES, its background colour is one of that palette
\* and the colour of every element is one of the palette in use.
C3_ArtSucceeds ==
    \A c \in Activations :
        (IsArt(c) /\ calls[c].size > 0) =>
            /\ calls[c].pc # "threw"
            /\ calls[c].pc \in {"bgColor", "render", "compose", "done"}
                   => calls[c].palette \in Range(PALETTES)
            /\ calls[c].pc \in {"render", "compose", "done"}
                   => calls[c].bgColor \in Range(calls[c].palette)
            /\ calls[c].pc \in {"compose", "done"}
                   => \A i \in DOMAIN calls[c].elements :
                          calls[c].elements[i].fill \in Range(PaletteInUse(c))
            /\ Done(c)
                   => \A i \in DOMAIN calls[c].result.stops :
                          calls[c].result.stops[i].color
                              \in Range(calls[c].palette)

\* A circuit of the default size has been returned.
C3_Witness ==
    \E c \in Activations :
        /\ IsArt(c) /\ Done(c)
        /\ calls[c].style = "circuit"
        /\ calls[c].size = DefaultSize
        /\ Len(calls[c].result.elements) >= 40

\* C4 as claimed: a call of generateArt with size <= 0 raises an error and
\* returns no document.
C4_NonPositiveSizeRaises ==
    \A c \in Activations :
        (IsArt(c) /\ calls[c].size <= 0) => ~Done(c)

\* C4 as the code has it: a call of generateArt with size <= 0 raises no
\* error; it returns a document whose viewBox is 0 0 size size and whose
\* background rectangle has side size.
C4_NonPositiveSizeReturns ==
    \A c \in Activations :
        (IsArt(c) /\ calls[c].size <= 0) =>
            /\ calls[c].pc # "threw"
            /\ Done(c) =>
                   /\ calls[c].result.viewBox
                          = <<0, 0, calls[c].size, calls[c].size>>
                   /\ calls[c].result.background.width = calls[c].size
                   /\ calls[c].result.background.height = calls[c].size

\* Documents of size 0 and of negative size have been returned.
C4_Witness ==
    \E c \in Activations :
        /\ IsArt(c) /\ Done(c)
        /\ calls[c].size = 0
        /\ calls[c].result.viewBox = <<0, 0, 0, 0>>

RenderedStyles == {"geometric", "organic", "pixel", "circuit", "stacks"}

\* C5: for a style that is none of geometric, organic, pixel, circuit and
\* stacks, generateArt returns the document it returns for the same seed
\* and size with style geometric, and does not throw.
C5_Fallback ==
    \A c \in Activations :
        (IsArt(c) /\ calls[c].style \notin RenderedStyles) =>
            /\ calls[c].pc # "threw"
            /\ Done(c) => calls[c].result
                              = generateArt(calls[c].seed, "geometric",
                                            calls[c].size)

\* A document has been returned for the style punk.
C5_Witness ==
    \E c \in Activations :
        /\ IsArt(c) /\ Done(c)
        /\ calls[c].style = "punk"
        /\ calls[c].size = DefaultSize
        /\ Len(calls[c].result.elements) >= 8

GradientFrom(c, palette) ==
    /\ Len(calls[c].result.stops) = 2
    /\ calls[c].result.stops[1].color = palette[1]
    /\ calls[c].result.stops[2].color = palette[2]
    /\ \A i \in 1 .. 2 : calls[c].result.stops[i].opacity = "0.8"

\* C6 as claimed: the gradient of a returned document has the first two
\* colours of the palette in use, which for style stacks is the fixed
\* Stacks palette, each stop at opacity 0.8.
C6_GradientOfPaletteInUse ==
    \A c \in Activations :
        (IsArt(c) /\ Done(c)) => GradientFrom(c, PaletteInUse(c))

\* C6 as the code has it: for every style, stacks included, the gradient
\* of a returned document has the first two colours of the palette of
\* PALETTES selected by the first value of the sequence, each stop at
\* opacity 0.8.
C6_GradientOfSelectedPalette ==
    \A c \in Activations :
        (IsArt(c) /\ Done(c)) =>
            /\ calls[c].palette
                   = SelectPalette(Call([seed |-> hashString(calls[c].seed),
                                         n |-> 0]))
            /\ GradientFrom(c, calls[c].palette)

\* A stacks document whose selected palette does not begin with the two
\* colours the Stacks palette begins with.
C6_Witness ==
    \E c \in Activations :
        /\ IsArt(c) /\ Done(c)
        /\ calls[c].style = "stacks"
        /\ calls[c].palette[1] # stacksPalette[1]
        /\ calls[c].result.stops[1].color = calls[c].palette[1]

\* C7: generateTraits returns five entries of types Style, Rarity,
\* Background, Mood, Generation in this order; the last is (Generation,
\* Genesis); Rarity, Background and Mood are the members of their lists
\* indexed by the first, second and third value of a fresh sequence seeded
\* with hashString(seed).
C7_TraitCardinality ==
    \A c \in Activations :
        (IsTraits(c) /\ Done(c)) =>
            LET r1 == Call([seed |-> hashString(calls[c].seed), n |-> 0])
                r2 == Call(r1)
                r3 == Call(r2)
                list == calls[c].result
            IN  /\ Len(list) = 5
                /\ [i \in 1 .. 5 |-> list[i].trait_type]
                       = <<"Style", "Rarity", "Background", "Mood",
                           "Generation">>
                /\ list[5].value = "Genesis"
                /\ list[2].value \in Range(rarities)
                /\ list[3].value \in Range(backgrounds)
                /\ list[4].value \in Range(moods)
                /\ list[2].value = rarities[MulFloor(Value(r1), 5) + 1]
                /\ list[3].value = backgrounds[MulFloor(Value(r2), 5) + 1]
                /\ list[4].value = moods[MulFloor(Value(r3), 5) + 1]
                /\ heap[Closure(c)].n = 3

\* The traits of "seed-1" in style stacks have been returned.
C7_Witness ==
    \E c \in Activations :
        /\ IsTraits(c) /\ Done(c)
        /\ calls[c].seed = SeedOne
        /\ calls[c].style = "stacks"
        /\ Len(calls[c].result) = 5

\* C8 as claimed: the first entry is (Style, name) with the catalogue's
\* display name for a style of the catalogue, and (Style, style) with the
\* style string itself for every other style.
C8_StyleTraitValue ==
    \A c \in Activations :
        (IsTraits(c) /\ calls[c].result # <<>>) =>
            calls[c].result[1]
                = [trait_type |-> "Style",
                   value |-> IF calls[c].style \in DOMAIN STYLES
                             THEN STYLES[calls[c].style].name
                             ELSE calls[c].style]

\* The cells of the trace whose value exceeds 0.4: the numerator v of a
\* value satisfies v / (2^31 - 1) > 0.4 exactly when v >= 858993459.
PaintedCells(trace) == SelectSeq(trace, LAMBDA t : t.value >= 858993459)

\* C9: for style pixel and a size that is a positive multiple of 20 the
\* renderer evaluates (size / 20)^2 cells, x outer and y inner; a cell whose
\* value exceeds 0.4 takes two more values and emits one rectangle at its
\* position, any other cell takes no further value and emits nothing.
C9_PixelGrid ==
    \A c \in Activations :
        (/\ IsArt(c) /\ calls[c].style = "pixel"
         /\ calls[c].pc \in {"compose", "done"}
         /\ calls[c].size > 0 /\ calls[c].size % 20 = 0) =>
            LET g == calls[c].size \div 20
                trace == calls[c].trace
                painted == PaintedCells(trace)
                rects == calls[c].elements
            IN  /\ Len(trace) = g * g
                /\ \A i \in DOMAIN trace :
                       /\ trace[i].x = (i - 1) \div g
                       /\ trace[i].y = (i - 1) % g
                       /\ trace[i].draws
                              = IF trace[i].value >= 858993459 THEN 3 ELSE 1
                /\ Len(rects) = Len(painted)
                /\ \A k \in DOMAIN rects :
                       /\ rects[k].tag = "rect"
                       /\ rects[k].args[1] = 20 * painted[k].x
                       /\ rects[k].args[2] = 20 * painted[k].y
                /\ heap[Closure(c)].n = 2 + Len(trace) + 2 * Len(painted)
                /\ calls[c].size = 400 => Len(trace) = 400
                /\ calls[c].size = 20 => Len(trace) = 1

\* A pixel document of size 400 with painted and unpainted cells.
C9_Witness ==
    \E c \in Activations :
        /\ IsArt(c) /\ Done(c)
        /\ calls[c].style = "pixel"
        /\ calls[c].size = 400
        /\ Len(calls[c].trace) = 400
        /\ Len(calls[c].elements) \in 1 .. 399

\* The pattern of (31 * h + code) mod 2^32, and the rolling hash of the
\* first n code units of str in that arithmetic, starting from 0.
PolyStep(h, code) ==
    LET lo == 31 * h[2] + code
        hi == 31 * h[1] + (lo \div Radix)
    IN  <<hi % Radix, lo % Radix>>

RECURSIVE PolyHash(_, _)
PolyHash(str, n) ==
    IF n = 0 THEN <<0, 0>> ELSE PolyStep(PolyHash(str, n - 1), str[n])

\* d is the absolute value of the signed 32-bit integer of pattern p: p
\* itself when its top bit is clear, and otherwise the d with d + p = 2^32.
IsAbsOf(d, p) ==
    IF p[1] < HalfRadix THEN d = p
    ELSE /\ (d[2] + p[2]) % Radix = 0
         /\ d[1] + p[1] + (IF p[2] = 0 THEN 0 ELSE 1) = Radix

\* C10: the digest hashString gives a seed is the absolute value of the
\* rolling hash h = h * 31 + codeUnit of its code units in signed 32-bit
\* wrapping arithmetic; it is a number from 0 to 2^31, and 0 for the empty
\* string.  (The digest is the register of the closure before its first
\* call.)
C10_Hasher ==
    \A c \in Activations :
        (calls[c].pc # "idle" /\ heap[Closure(c)].n = 0) =>
            LET d == heap[Closure(c)].seed
            IN  /\ IsAbsOf(d, PolyHash(calls[c].seed, Len(calls[c].seed)))
                /\ d[1] \in 0 .. HalfRadix
                /\ d[2] \in 0 .. Radix - 1
                /\ d[1] = HalfRadix => d[2] = 0
                /\ calls[c].seed = <<>> => d = <<0, 0>>

\* The seed whose rolling hash is -2^31 has been hashed to 2^31.
C10_Witness ==
    \E c \in Activations :
        /\ calls[c].pc # "idle"
        /\ calls[c].seed = SeedMin
        /\ heap[Closure(c)].n = 0
        /\ heap[Closure(c)].seed = <<HalfRadix, 0>>

\* The n-th iterate of state := (state * 1103515245 + 12345) mod 2^31 in
\* exact integer arithmetic, from the word w.
RECURSIVE ExactIterate(_, _)
ExactIterate(w, n) ==
    IF n = 0 THEN w ELSE ExactIterate(NextSeedExact(w), n - 1)

\* C11: after its n-th call (1 <= n <= MaxDraws) the register of the closure
\* created from a seed's digest is the n-th exact iterate of the recurrence
\* from that digest, it is below 2^31, and the value a caller of the
\* sequence got last is that register over 2^31 - 1.
C11_ExactRecurrence ==
    \A c \in Activations :
        (calls[c].pc # "idle" /\ heap[Closure(c)].n \in 1 .. MaxDraws) =>
            /\ heap[Closure(c)].seed
                   = ExactIterate(hashString(calls[c].seed),
                                  heap[Closure(c)].n)
            /\ heap[Closure(c)].seed[1] < HalfRadix
            /\ calls[c].op = "sequence"
                   => calls[c].result = <<Numer(heap[Closure(c)].seed)>>

\* The closure as it is after each of the calls activation c has made of
\* it, recomputed from the digest of the seed.
CallsMade(c) ==
    Repeat(LAMBDA d : Append(d, Call(d[Len(d)])), LAMBDA d : Len(d),
           <<Call([seed |-> hashString(calls[c].seed), n |-> 0])>>,
           heap[Closure(c)].n)

\* C12: the geometric renderer (which also serves every style without a
\* renderer of its own) emits 8 + floor(value * 12) shapes, between 8 and
\* 19, one per iteration; an iteration takes colour index, opacity, x, y and
\* a first branch value: above 0.5 it is a triangle with one more value
\* (6 calls); otherwise a second branch value is taken: above 0.5 a
\* rectangle with width, height and angle (9 calls), else a circle with a
\* radius (7 calls).
C12_GeometricDraws ==
    \A c \in Activations :
        (/\ IsArt(c) /\ calls[c].pc \in {"compose", "done"}
         /\ calls[c].style \notin {"organic", "pixel", "circuit", "stacks"})
        =>
        LET v == CallsMade(c)
            trace == calls[c].trace
            shapes == calls[c].elements
            at[i \in 1 .. Len(trace)] ==
                IF i = 1 THEN 3 ELSE at[i - 1] + trace[i - 1].draws
        IN  /\ Len(trace) = 8 + MulFloor(Value(v[3]), 12)
            /\ Len(trace) \in 8 .. 19
            /\ Len(shapes) = Len(trace)
            /\ heap[Closure(c)].n
                   = at[Len(trace)] + trace[Len(trace)].draws
            /\ \A i \in 1 .. Len(trace) :
                   /\ shapes[i].tag = trace[i].tag
                   /\ shapes[i].fill
                          = ElementAt(calls[c].palette,
                                MulFloor(Value(v[at[i] + 1]),
                                         Len(calls[c].palette)))
                   /\ SubSeq(shapes[i].args, 1, 3)
                          = <<Value(v[at[i] + 2]),
                              Scaled(Value(v[at[i] + 3]), calls[c].size),
                              Scaled(Value(v[at[i] + 4]), calls[c].size)>>
                   /\ IF Exceeds(Value(v[at[i] + 5]), 1, 2)
                      THEN /\ trace[i].tag = "polygon"
                           /\ trace[i].draws = 6
                           /\ SubSeq(shapes[i].args, 4, Len(shapes[i].args))
                                  = <<Value(v[at[i] + 6])>>
                      ELSE IF Exceeds(Value(v[at[i] + 6]), 1, 2)
                      THEN /\ trace[i].tag = "rect"
                           /\ trace[i].draws = 9
                           /\ SubSeq(shapes[i].args, 4, Len(shapes[i].args))
                                  = <<Value(v[at[i] + 7]),
                                      Value(v[at[i] + 8]),
                                      Value(v[at[i] + 9])>>
                      ELSE /\ trace[i].tag = "circle"
                           /\ trace[i].draws = 7
                           /\ SubSeq(shapes[i].args, 4, Len(shapes[i].args))
                                  = <<Value(v[at[i] + 7])>>

\* A geometric document holding a triangle, a rectangle and a circle.
C12_Witness ==
    \E c \in Activations :
        /\ IsArt(c) /\ Done(c)
        /\ calls[c].style = "geometric"
        /\ Len(calls[c].trace) \in 8 .. 19
        /\ {"polygon", "rect", "circle"}
               \subseteq {calls[c].trace[i].tag : i \in DOMAIN calls[c].trace}

\* Every request has been answered or has not arrived.
Quiescent == \A r \in Requests : forge[r].pc \in {"idle", "responded"}

\* The collection records in the store.
Stored == {id \in Requests : CACHE.collections[id] # <<>>}

RECURSIVE SupplyOf(_)
SupplyOf(ids) ==
    IF ids = {} THEN 0
    ELSE LET id == CHOOSE i \in ids : TRUE
         IN  CACHE.collections[id][1].supply + SupplyOf(ids \ {id})

\* C13 (under SpecForge): once every request has been answered, the record
\* under forge:stats counts the collection records in the store and sums
\* their supplies, and a request answered with 400 or 402 has written
\* nothing.
C13_StatsConsistent ==
    /\ Quiescent =>
           LET stats == IF CACHE.stats = <<>>
                        THEN [collections |-> 0, nftsMinted |-> 0]
                        ELSE CACHE.stats[1]
           IN  /\ stats.collections = Cardinality(Stored)
               /\ stats.nftsMinted = SupplyOf(Stored)
    /\ \A r \in Requests :
           (forge[r].pc = "responded" /\ forge[r].status \in {400, 402})
               => forge[r].puts = 0 /\ CACHE.collections[collectionId(r)] = <<>>

====
